---- MODULE Spec2Model ----
(***************************************************************************)
(* Model of sqlite-glance (src/src/table.rs, src/src/main.rs): identifier  *)
(* escaping, foreign-key row grouping, the per-table part of the schema    *)
(* report, the table listing and the pager decision.                       *)
(*                                                                         *)
(* Strings that the code inspects character by character (table names)     *)
(* are sequences of one-character strings; other strings are TLA+ strings. *)
(***************************************************************************)
EXTENDS Integers, Sequences, FiniteSets, TLC

VARIABLES
    name,        \* Table.name of the table whose name is escaped
    escaped,     \* the String returned by Table::escaped_name
    esc_pc,      \* "start" before the call of escaped_name, "done" after it
    rows,        \* the foreign-key rows rows.next() has handed to from_rows so far
    l,           \* from_rows: the list of constraints built so far
    current_id,  \* from_rows: id of the open constraint
    current,     \* from_rows: the open constraint
    fk_pc,       \* "loop" while from_rows reads rows, "done" once it has returned
    fn_called,   \* ForeignKeys::for_name has been called
    fn_arg,      \* its argument
    fn_res,      \* its result: <<>> for None, <<fk>> for Some(fk)
    mc_called,   \* ForeignKeys::multicolumn has been called
    mc_res,      \* its result
    inc_hidden,  \* the --hidden option
    indexes,     \* the indexes of the table the index loop has read so far,
                 \* each with its pragma_index_info rows
    cols_unique, \* inspect_schema: columns to label UNIQUE
    cols_w_index,\* inspect_schema: columns with a 1-column index, not unique
    pk_cols,     \* inspect_schema: columns in the primary key
    other_indexes, \* inspect_schema: the indexes to list, <<ix, cols>> each
    foreign_keys,  \* inspect_schema: the table's ForeignKeys list
    columns,     \* the ColumnInfo of the table the column loop has read so far
    output,      \* the lines written for the table, each a sequence of fragments
    sch_pc,      \* "indexes", "columns" or "done": where inspect_schema is in
                 \* the table's turn of the loop
    table_list,  \* the rows of pragma_table_list, in the order the catalog
                 \* lists them
    names_off,   \* the result of get_table_names(conn, &false)
    off_called,  \* that call has been made
    names_on,    \* the result of get_table_names(conn, &true)
    on_called,   \* that call has been made
    function,    \* the function an output decision is made in:
                 \* "inspect_table" or "inspect_schema"
    is_tty,      \* std::io::stdout().is_tty()
    out_height,  \* output.lines().count()
    out_width,   \* the width in characters of the rendered output (in
                 \* inspect_table, of its 2nd line, the top of the table)
    term_cols,   \* crossterm::terminal::size(), columns
    term_rows,   \* crossterm::terminal::size(), rows
    dispatch,    \* "" before the decision, then "Direct" (println!) or
                 \* "Paged" (show_in_pager)
    ps_table,    \* Table.name of the table whose creation statement is parsed
    ps_stmt,     \* what Parser::parse_sql makes of the statement that
                 \* sqlite_schema holds for the table
    ps_col,      \* the column get_gencol_expr is asked about
    gencol_called,  \* Table::get_gencol_expr has been called
    gencol_res,     \* its Result: [ok, value]
    virtual_called, \* Table::virtual_using has been called
    virtual_res,    \* its Result: [ok, value], value <<>> for None and <<m>>
                    \* for Some(m)
    arg_table,   \* main: the table argument of the command line
    arg_where,   \* main: the --where argument, "" when not given
    arg_limit,   \* main: the --limit argument
    db_rows,     \* the number of rows of the table or view named
    db_selected, \* the number of those rows the WHERE clause selects
    queries,     \* the queries the run has issued, in order
    nrows,       \* inspect_table: the rows added to the sample
    main_pc,     \* "start", "inspect", "count", "output" or "exit"
    exit_code,   \* the exit status of the process once main_pc = "exit"
    error        \* the message of the error main returned, "" for Ok(())

escVars == <<name, escaped, esc_pc>>
fkVars == <<rows, l, current_id, current, fk_pc, fn_called, fn_arg, fn_res,
            mc_called, mc_res>>
schVars == <<inc_hidden, indexes, cols_unique, cols_w_index, pk_cols,
             other_indexes, foreign_keys, columns, output, sch_pc>>
namVars == <<table_list, names_off, off_called, names_on, on_called>>
pagVars == <<function, is_tty, out_height, out_width, term_cols, term_rows,
             dispatch>>
parVars == <<ps_table, ps_stmt, ps_col, gencol_called, gencol_res,
             virtual_called, virtual_res>>
mainVars == <<arg_table, arg_where, arg_limit, db_rows, db_selected, queries,
              nrows, main_pc, exit_code, error>>
vars == <<escVars, fkVars, schVars, namVars, pagVars, parVars, mainVars>>

\* what the operations of one part of the program leave alone
notEscape == <<fkVars, schVars, namVars, pagVars, parVars, mainVars>>
notFK == <<escVars, schVars, namVars, pagVars, parVars, mainVars>>
notSchema == <<escVars, fkVars, namVars, pagVars, parVars, mainVars>>
notNames == <<escVars, fkVars, schVars, pagVars, parVars, mainVars>>
notPager == <<escVars, fkVars, schVars, namVars, parVars, mainVars>>
notParse == <<escVars, fkVars, schVars, namVars, pagVars, mainVars>>
notMain == <<escVars, fkVars, schVars, namVars, parVars>>

(***************************************************************************)
(* Bounds                                                                  *)
(***************************************************************************)
MaxLen == 3      \* longest table name, in characters
MaxRows == 3     \* most rows of pragma_foreign_key_list for one table
MaxId == 2       \* largest foreign-key constraint id
MaxIndexes == 2  \* most indexes of one table
MaxTables == 3   \* most rows of pragma_table_list besides the two schema tables
MaxDim == 3      \* largest height or width, of the output and of the terminal
MaxOptions == 2  \* most options of one column definition
MaxLimit == 2    \* largest --limit
MaxDbRows == 2   \* most rows of the table or view named

(***************************************************************************)
(* Table::escaped_name  (table.rs 228-243)                                 *)
(***************************************************************************)
Quote == "\""

\* the characters names are drawn from: letters of both cases, a digit, the
\* underscore, and characters that force quoting (quote, newline, space)
Chars == {"a", "s", "S", "1", "_", Quote, "\n", " "}

Names == UNION {[1..n -> Chars] : n \in 0..MaxLen}

\* char::is_ascii_alphanumeric, on the characters of Chars
is_ascii_alphanumeric(c) == c \in {"a", "s", "S", "1"}

\* str::to_uppercase, on the characters of Chars
to_uppercase(s) ==
    [i \in 1..Len(s) |-> CASE s[i] = "a" -> "A"
                           [] s[i] = "s" -> "S"
                           [] OTHER -> s[i]]

\* the keyword list of table/keywords.rs, cut down to the keywords that can be
\* spelled with Chars
KEYWORDS == {<<"A", "S">>}

\* keywords::is_keyword: SQL keywords are matched without regard to case
is_keyword(s) == to_uppercase(s) \in KEYWORDS

\* str::replace('"', "\"\""): every double quote becomes two
RECURSIVE replace_quotes(_)
replace_quotes(s) ==
    IF s = <<>> THEN <<>>
    ELSE IF Head(s) = Quote
         THEN <<Quote, Quote>> \o replace_quotes(Tail(s))
         ELSE <<Head(s)>> \o replace_quotes(Tail(s))

\* mutant: the name is wrapped in quotes without doubling the embedded ones
escaped_name_nodouble(n) ==
    IF (\A i \in 1..Len(n) : is_ascii_alphanumeric(n[i]) \/ n[i] = "_")
       /\ ~is_keyword(n)
    THEN n
    ELSE <<Quote>> \o n \o <<Quote>>

escaped_name(n) ==
    IF (\A i \in 1..Len(n) : is_ascii_alphanumeric(n[i]) \/ n[i] = "_")
       /\ ~is_keyword(n)
    THEN n
    ELSE <<Quote>> \o replace_quotes(n) \o <<Quote>>

\* the parts of the state a run does not use stay as they are here
IdleEscape ==
    /\ name = <<>>
    /\ escaped = <<>>
    /\ esc_pc = "idle"

IdleFK ==
    /\ rows = <<>>
    /\ l = <<>>
    /\ current_id = 0
    /\ current = <<>>
    /\ fk_pc = "idle"
    /\ fn_called = FALSE
    /\ fn_arg = ""
    /\ fn_res = <<>>
    /\ mc_called = FALSE
    /\ mc_res = <<>>

IdleSchema ==
    /\ inc_hidden = FALSE
    /\ indexes = <<>>
    /\ cols_unique = {}
    /\ cols_w_index = {}
    /\ pk_cols = <<>>
    /\ other_indexes = <<>>
    /\ foreign_keys = <<>>
    /\ columns = <<>>
    /\ output = <<>>
    /\ sch_pc = "idle"

IdleNames ==
    /\ table_list = <<>>
    /\ names_off = <<>>
    /\ off_called = FALSE
    /\ names_on = <<>>
    /\ on_called = FALSE

IdlePager ==
    /\ function = ""
    /\ is_tty = FALSE
    /\ out_height = 0
    /\ out_width = 0
    /\ term_cols = 0
    /\ term_rows = 0
    /\ dispatch = ""

IdleParse ==
    /\ ps_table = <<>>
    /\ ps_stmt = [ok |-> FALSE]
    /\ ps_col = ""
    /\ gencol_called = FALSE
    /\ gencol_res = [ok |-> FALSE, value |-> ""]
    /\ virtual_called = FALSE
    /\ virtual_res = [ok |-> FALSE, value |-> <<>>]

IdleMain ==
    /\ arg_table = ""
    /\ arg_where = ""
    /\ arg_limit = 0
    /\ db_rows = 0
    /\ db_selected = 0
    /\ queries = <<>>
    /\ nrows = 0
    /\ main_pc = "idle"
    /\ exit_code = 0
    /\ error = ""

\* the parts of the state that only some runs use
IdleRest == IdleParse /\ IdleMain

InitEscape ==
    /\ name \in Names
    /\ escaped = <<>>
    /\ esc_pc = "start"
    /\ IdleFK
    /\ IdleSchema
    /\ IdleNames
    /\ IdlePager
    /\ IdleRest

\* a call of Table::escaped_name on the table
EscapedName ==
    /\ esc_pc = "start"
    /\ escaped' = escaped_name(name)
    /\ esc_pc' = "done"
    /\ UNCHANGED <<name, notEscape>>

NextEscape == EscapedName

SpecEscape == InitEscape /\ [][NextEscape]_vars

(***************************************************************************)
(* C1                                                                      *)
(***************************************************************************)
\* a plain identifier in the words of the claim
PlainIdentifier(n) ==
    /\ \A i \in 1..Len(n) : n[i] \in {"a", "s", "S", "1", "_"}
    /\ ~is_keyword(n)

\* strip the outer quotes
StripQuotes(e) == SubSeq(e, 2, Len(e) - 1)

\* every quote of s is one of an adjacent pair, read left to right
RECURSIVE QuotesDoubled(_)
QuotesDoubled(s) ==
    IF s = <<>> THEN TRUE
    ELSE IF Head(s) = Quote
         THEN Len(s) >= 2 /\ s[2] = Quote /\ QuotesDoubled(Tail(Tail(s)))
         ELSE QuotesDoubled(Tail(s))

\* halve the doubled quotes, read left to right
RECURSIVE HalveQuotes(_)
HalveQuotes(s) ==
    IF s = <<>> THEN <<>>
    ELSE IF Head(s) = Quote /\ Len(s) >= 2 /\ s[2] = Quote
         THEN <<Quote>> \o HalveQuotes(Tail(Tail(s)))
         ELSE <<Head(s)>> \o HalveQuotes(Tail(s))

NumQuotes(s) == Cardinality({i \in 1..Len(s) : s[i] = Quote})

\* C1: escaped_name returns a plain identifier (ASCII alphanumerics and
\* underscore only, not a keyword) unchanged; every other name comes back
\* wrapped in double quotes, with every embedded double quote doubled, and
\* stripping the outer quotes and halving the doubled quotes gives the name back.
C1_EscapeRoundTrip ==
    esc_pc = "done" =>
        IF PlainIdentifier(name)
        THEN escaped = name
        ELSE /\ Len(escaped) = Len(name) + NumQuotes(name) + 2
             /\ escaped[1] = Quote
             /\ escaped[Len(escaped)] = Quote
             /\ QuotesDoubled(StripQuotes(escaped))
             /\ HalveQuotes(StripQuotes(escaped)) = name

\* a name with an embedded quote and a newline has been escaped
C1_Witness ==
    /\ esc_pc = "done"
    /\ \E i \in 1..Len(name) : name[i] = Quote
    /\ \E i \in 1..Len(name) : name[i] = "\n"
    /\ escaped # name
(***************************************************************************)
(* ForeignKeyInfo, ForeignKeys  (table.rs 66-134)                          *)
(***************************************************************************)
\* SQL NULL in the "to" column of pragma_foreign_key_list
Null == "<NULL>"

ColNames == {"a", "b"}

\* the (table, on_update, on_delete) part of a row
RowTails ==
    {[table |-> "multi_pk", on_update |-> "NO ACTION", on_delete |-> "NO ACTION"],
     [table |-> "t1", on_update |-> "CASCADE", on_delete |-> "SET NULL"]}

\* the rows of pragma_foreign_key_list
FkRows ==
    {[id |-> i, table |-> t.table, from |-> f, to |-> c,
      on_update |-> t.on_update, on_delete |-> t.on_delete] :
        i \in 0..MaxId, t \in RowTails, f \in ColNames, c \in {"a", Null}}

\* ForeignKeyInfo::new
ForeignKeyInfo_new ==
    [to_table |-> "", from |-> <<>>, to |-> <<>>,
     on_update |-> "NO ACTION", on_delete |-> "NO ACTION"]

\* Option::unwrap_or("") on the "to" column
unwrap_or_empty(c) == IF c = Null THEN "" ELSE c

\* lines 103-108: the row's values go into the open constraint
accumulate(cur, row) ==
    [to_table |-> row.table,
     from |-> Append(cur.from, row.from),
     to |-> Append(cur.to, unwrap_or_empty(row.to)),
     on_update |-> row.on_update,
     on_delete |-> row.on_delete]

\* mutant: on a change of id the open constraint is pushed but not replaced
\* by a new one
from_rows_row_noreset(st, row) ==
    IF row.id # st.current_id
    THEN [l |-> Append(st.l, st.current),
          current_id |-> row.id,
          current |-> accumulate(st.current, row)]
    ELSE [l |-> st.l,
          current_id |-> st.current_id,
          current |-> accumulate(st.current, row)]

\* one turn of the while loop of from_rows (lines 96-109) on locals st
from_rows_row(st, row) ==
    IF row.id # st.current_id
    THEN [l |-> Append(st.l, st.current),
          current_id |-> row.id,
          current |-> accumulate(ForeignKeyInfo_new, row)]
    ELSE [l |-> st.l,
          current_id |-> st.current_id,
          current |-> accumulate(st.current, row)]

\* lines 110-113: after the last row
from_rows_end(st) ==
    IF Len(st.current.from) > 0 THEN Append(st.l, st.current) ELSE st.l

\* mutant: any constraint that has the column among its source columns matches
for_name_anycol(list, n) ==
    LET hits == {i \in 1..Len(list) :
                    \E j \in 1..Len(list[i].from) : list[i].from[j] = n}
    IN  IF hits = {} THEN <<>>
        ELSE <<list[CHOOSE i \in hits : \A j \in hits : i <= j]>>

\* ForeignKeys::for_name: the first constraint whose only source column is n
for_name(list, n) ==
    LET hits == {i \in 1..Len(list) :
                    Len(list[i].from) = 1 /\ list[i].from[1] = n}
    IN  IF hits = {} THEN <<>>
        ELSE <<list[CHOOSE i \in hits : \A j \in hits : i <= j]>>

\* ForeignKeys::multicolumn
RECURSIVE multicolumn(_)
multicolumn(list) ==
    IF list = <<>> THEN <<>>
    ELSE IF Len(Head(list).from) > 1
         THEN <<Head(list)>> \o multicolumn(Tail(list))
         ELSE multicolumn(Tail(list))

InitFK ==
    /\ rows = <<>>
    /\ l = <<>>
    /\ current_id = 0
    /\ current = ForeignKeyInfo_new
    /\ fk_pc = "loop"
    /\ fn_called = FALSE
    /\ fn_arg = ""
    /\ fn_res = <<>>
    /\ mc_called = FALSE
    /\ mc_res = <<>>
    /\ IdleEscape
    /\ IdleSchema
    /\ IdleNames
    /\ IdlePager
    /\ IdleRest

\* rows.next() yields Some(row); the catalog emits rows in id order
FromRowsRow ==
    /\ fk_pc = "loop"
    /\ Len(rows) < MaxRows
    /\ \E row \in FkRows :
        /\ rows # <<>> => row.id >= rows[Len(rows)].id
        /\ rows' = Append(rows, row)
        /\ LET st == from_rows_row([l |-> l, current_id |-> current_id,
                                    current |-> current], row)
           IN  /\ l' = st.l
               /\ current_id' = st.current_id
               /\ current' = st.current
    /\ UNCHANGED <<fk_pc, fn_called, fn_arg, fn_res, mc_called, mc_res, notFK>>

\* rows.next() yields None: from_rows returns ForeignKeys { list: l }
FromRowsEnd ==
    /\ fk_pc = "loop"
    /\ l' = from_rows_end([l |-> l, current_id |-> current_id,
                           current |-> current])
    /\ fk_pc' = "done"
    /\ UNCHANGED <<rows, current_id, current, fn_called, fn_arg, fn_res,
                   mc_called, mc_res, notFK>>

\* a call of for_name on the list
ForName ==
    /\ fk_pc = "done"
    /\ ~fn_called
    /\ \E n \in ColNames :
        /\ fn_arg' = n
        /\ fn_res' = for_name(l, n)
    /\ fn_called' = TRUE
    /\ UNCHANGED <<rows, l, current_id, current, fk_pc, mc_called, mc_res,
                   notFK>>

\* a call of multicolumn on the list
Multicolumn ==
    /\ fk_pc = "done"
    /\ ~mc_called
    /\ mc_res' = multicolumn(l)
    /\ mc_called' = TRUE
    /\ UNCHANGED <<rows, l, current_id, current, fk_pc, fn_called, fn_arg,
                   fn_res, notFK>>

NextFK == FromRowsRow \/ FromRowsEnd \/ ForName \/ Multicolumn

SpecFK == InitFK /\ [][NextFK]_vars

(***************************************************************************)
(* C2                                                                      *)
(***************************************************************************)
\* the constraint ids of the rows, in the order they first appear
RECURSIVE IdsInOrder(_, _)
IdsInOrder(rs, seen) ==
    IF rs = <<>> THEN <<>>
    ELSE IF Head(rs).id \in seen
         THEN IdsInOrder(Tail(rs), seen)
         ELSE <<Head(rs).id>> \o IdsInOrder(Tail(rs), seen \cup {Head(rs).id})

RowsOfId(rs, i) == SelectSeq(rs, LAMBDA r : r.id = i)

\* the constraint the claim describes for the rows g of one id
ConstraintOf(g) ==
    [to_table |-> g[Len(g)].table,
     from |-> [j \in 1..Len(g) |-> g[j].from],
     to |-> [j \in 1..Len(g) |-> IF g[j].to = Null THEN "" ELSE g[j].to],
     on_update |-> g[Len(g)].on_update,
     on_delete |-> g[Len(g)].on_delete]

HasColumns(fk) == Len(fk.from) > 0

\* C2: for rows in id order, the constraints of the result that carry columns
\* are, in the order the ids first appear, one per id: its (source, target)
\* column pairs are those of the rows of that id in row order, a missing target
\* recorded as "", and its target table and actions are those of the last row
\* of that id.
C2_OneConstraintPerId ==
    fk_pc = "done" =>
        LET ids == IdsInOrder(rows, {})
        IN  SelectSeq(l, HasColumns) =
                [k \in 1..Len(ids) |-> ConstraintOf(RowsOfId(rows, ids[k]))]

\* two constraints were read, the first from two rows that differ in target
\* table and actions, with a NULL target column
C2_Witness ==
    /\ fk_pc = "done"
    /\ Len(rows) = 3
    /\ rows[1].id = rows[2].id
    /\ rows[2].id # rows[3].id
    /\ rows[1].table # rows[2].table
    /\ rows[1].to = Null
    /\ Len(l) = 2
    /\ l[1].from = <<rows[1].from, rows[2].from>>

(***************************************************************************)
(* C3                                                                      *)
(***************************************************************************)
Elems(s) == {s[i] : i \in 1..Len(s)}

\* C3: for_name(n) returns at most one constraint, and only one of the list
\* whose single source column is n; multicolumn() returns exactly the
\* constraints of the list with more than one source column, in list order; no
\* constraint is returned by both.
C3_ForNameMulticolumn ==
    /\ fn_called =>
        /\ Len(fn_res) <= 1
        /\ \A fk \in Elems(fn_res) :
            /\ fk \in Elems(l)
            /\ fk.from = <<fn_arg>>
    /\ mc_called =>
        mc_res = SelectSeq(l, LAMBDA fk : Len(fk.from) > 1)
    /\ (fn_called /\ mc_called) => Elems(fn_res) \cap Elems(mc_res) = {}

\* the foreign key (a, b): for_name("a") gave None and multicolumn() gave the
\* one constraint
C3_Witness ==
    /\ fn_called
    /\ mc_called
    /\ fn_arg = "a"
    /\ fn_res = <<>>
    /\ Len(mc_res) = 1
    /\ mc_res[1].from = <<"a", "b">>
    /\ mc_res[1].to = <<"a", "">>
(***************************************************************************)
(* C15                                                                     *)
(***************************************************************************)
\* the number of groups of rows that the changes of id delimit
NumGroups(rs) ==
    Cardinality({i \in 1..Len(rs) : i = 1 \/ rs[i].id # rs[i - 1].id})

\* C15: the list from_rows returns has no constraint with an empty column
\* list, and as many constraints as the changes of id delimit groups of rows,
\* also for no rows and for rows whose first id is not 0.
C15_NoEmptyConstraint ==
    fk_pc = "done" =>
        /\ \A i \in 1..Len(l) : Len(l[i].from) > 0
        /\ Len(l) = NumGroups(rows)

(***************************************************************************)
(* Table::create_sql, virtual_using, col_def_ast, get_gencol_expr          *)
(* (table.rs 168-188, 256-284)                                             *)
(***************************************************************************)
\* table names, character by character
N_SQLITE_SCHEMA == <<"s", "q", "l", "i", "t", "e", "_", "s", "c", "h", "e", "m", "a">>

N_SQLITE_TEMP_SCHEMA ==
    <<"s", "q", "l", "i", "t", "e", "_", "t", "e", "m", "p", "_", "s", "c", "h", "e", "m", "a">>

N_T1 == <<"t", "1">>

N_SQLITEX == <<"s", "q", "l", "i", "t", "e", "x">>

N_EMAIL == <<"e", "m", "a", "i", "l">>

N_EMAIL_DATA == <<"e", "m", "a", "i", "l", "_", "d", "a", "t", "a">>

N_V1 == <<"v", "1">>

\* ColumnOption of sqlparser: NOT NULL, GENERATED ALWAYS AS without a stored
\* expression, and AS (a * a)
ColumnOptions ==
    {[option |-> "NotNull", generation_expr |-> <<>>],
     [option |-> "Generated", generation_expr |-> <<>>],
     [option |-> "Generated", generation_expr |-> <<"a * a">>]}

OptionLists == UNION {[1..n -> ColumnOptions] : n \in 0..MaxOptions}

\* ColumnDef of sqlparser
ColumnDefs == {[name |-> n, options |-> o] : n \in {"a", "square"}, o \in OptionLists}

\* Statement of sqlparser: CREATE TABLE with no, one or two columns, CREATE
\* VIRTUAL TABLE ... USING fts5, and another statement
Statements ==
    {[kind |-> "CreateTable", columns |-> c] :
        c \in UNION {[1..n -> ColumnDefs] : n \in 0..2}}
    \cup {[kind |-> "CreateVirtualTable", module_name |-> "fts5"],
          [kind |-> "CreateView"]}

\* Parser::parse_sql on the statement of a table: Err, or Ok with the
\* statements parsed
ParseResults ==
    {[ok |-> FALSE], [ok |-> TRUE, ast |-> <<>>]}
    \cup {[ok |-> TRUE, ast |-> <<st>>] : st \in Statements}

\* str::starts_with
starts_with(s, prefix) ==
    Len(s) >= Len(prefix) /\ SubSeq(s, 1, Len(prefix)) = prefix

SqlitePrefix == <<"s", "q", "l", "i", "t", "e", "_">>

\* Table::create_sql (table.rs 169-175): query_row on sqlite_schema fails for
\* the table sqlite_schema itself, which has no row there; stmt stands for the
\* text the row holds, given by what the parser makes of it
create_sql(table_name, stmt) ==
    IF table_name = N_SQLITE_SCHEMA
    THEN [ok |-> FALSE]
    ELSE [ok |-> TRUE, sql |-> stmt]

\* mutant: the statement is fetched and parsed for sqlite_ names too
virtual_using_noprefix(table_name, stmt) ==
    LET sql == create_sql(table_name, stmt)
    IN  IF ~sql.ok THEN [ok |-> FALSE, value |-> <<>>]
        ELSE IF sql.sql.ok /\ sql.sql.ast # <<>>
                /\ sql.sql.ast[1].kind = "CreateVirtualTable"
             THEN [ok |-> TRUE, value |-> <<sql.sql.ast[1].module_name>>]
             ELSE [ok |-> TRUE, value |-> <<>>]

\* Table::virtual_using (table.rs 178-188)
virtual_using(table_name, stmt) ==
    IF starts_with(table_name, SqlitePrefix)
    THEN [ok |-> TRUE, value |-> <<>>]
    ELSE LET sql == create_sql(table_name, stmt)
         IN  IF ~sql.ok THEN [ok |-> FALSE, value |-> <<>>]
             ELSE IF sql.sql.ok /\ sql.sql.ast # <<>>
                     /\ sql.sql.ast[1].kind = "CreateVirtualTable"
                  THEN [ok |-> TRUE, value |-> <<sql.sql.ast[1].module_name>>]
                  ELSE [ok |-> TRUE, value |-> <<>>]

\* the element of a sequence at the first of the positions hits, as an Option
First(seq, hits) ==
    IF hits = {} THEN <<>>
    ELSE <<seq[CHOOSE i \in hits : \A j \in hits : i <= j]>>

\* Table::col_def_ast (table.rs 257-268)
col_def_ast(table_name, stmt, col_name) ==
    LET sql == create_sql(table_name, stmt)
    IN  IF ~sql.ok THEN [ok |-> FALSE, value |-> <<>>]
        ELSE IF sql.sql.ok /\ sql.sql.ast # <<>>
                /\ sql.sql.ast[1].kind = "CreateTable"
             THEN [ok |-> TRUE,
                   value |-> LET cds == sql.sql.ast[1].columns
                              IN  First(cds, {i \in 1..Len(cds) :
                                               cds[i].name = col_name})]
             ELSE [ok |-> TRUE, value |-> <<>>]

CouldNotGet == "<could not get AS expression>"

\* Table::get_gencol_expr (table.rs 271-284)
get_gencol_expr(table_name, stmt, col_name) ==
    LET coldef == col_def_ast(table_name, stmt, col_name)
    IN  IF ~coldef.ok THEN [ok |-> FALSE, value |-> ""]
        ELSE IF coldef.value = <<>> THEN [ok |-> TRUE, value |-> CouldNotGet]
        ELSE LET opts == coldef.value[1].options
                 o == First(opts, {i \in 1..Len(opts) :
                                     /\ opts[i].option = "Generated"
                                     /\ opts[i].generation_expr # <<>>})
             IN  IF o = <<>> THEN [ok |-> TRUE, value |-> CouldNotGet]
                 ELSE [ok |-> TRUE, value |-> o[1].generation_expr[1]]

\* the tables of the report whose statement is parsed: t1, the fts5 table
\* email and, with --hidden, sqlite_schema
ParsedTables == {N_T1, N_EMAIL, N_SQLITE_SCHEMA}

InitParse ==
    /\ ps_table \in ParsedTables
    /\ ps_stmt \in ParseResults
    /\ ps_table = N_SQLITE_SCHEMA => ps_stmt = [ok |-> FALSE]
    /\ ps_col \in {"a", "square"}
    /\ gencol_called = FALSE
    /\ gencol_res = [ok |-> FALSE, value |-> ""]
    /\ virtual_called = FALSE
    /\ virtual_res = [ok |-> FALSE, value |-> <<>>]
    /\ IdleEscape
    /\ IdleFK
    /\ IdleSchema
    /\ IdleNames
    /\ IdlePager
    /\ IdleMain

\* inspect_schema calls virtual_using on every table it lists (main.rs 218)
VirtualUsing ==
    /\ ~virtual_called
    /\ virtual_res' = virtual_using(ps_table, ps_stmt)
    /\ virtual_called' = TRUE
    /\ UNCHANGED <<ps_table, ps_stmt, ps_col, gencol_called, gencol_res,
                   notParse>>

\* inspect_schema calls get_gencol_expr on the generated columns of a table
\* (main.rs 278-279); the sqlite_ tables have none
GetGencolExpr ==
    /\ ~gencol_called
    /\ ~starts_with(ps_table, SqlitePrefix)
    /\ gencol_res' = get_gencol_expr(ps_table, ps_stmt, ps_col)
    /\ gencol_called' = TRUE
    /\ UNCHANGED <<ps_table, ps_stmt, ps_col, virtual_called, virtual_res,
                   notParse>>

NextParse == VirtualUsing \/ GetGencolExpr

SpecParse == InitParse /\ [][NextParse]_vars

(***************************************************************************)
(* C12                                                                     *)
(***************************************************************************)
\* the parsed statement is a CREATE TABLE
IsCreateTable(stmt) ==
    stmt.ok /\ stmt.ast # <<>> /\ stmt.ast[1].kind = "CreateTable"

\* the column definitions of the name c in a parsed CREATE TABLE
DefsOf(stmt, c) == SelectSeq(stmt.ast[1].columns, LAMBDA cd : cd.name = c)

\* the AS expressions among the options of a column definition
ExprsOf(cd) ==
    SelectSeq(cd.options, LAMBDA x : x.option = "Generated"
                                     /\ x.generation_expr # <<>>)

\* C12: get_gencol_expr never returns an error; it returns the placeholder
\* when the statement cannot be parsed, is no CREATE TABLE, has no definition
\* of the column, or that definition has no generated-as option with an
\* expression, and the expression otherwise.  virtual_using never returns an
\* error; it returns None for a name with the sqlite_ prefix and when the
\* statement cannot be parsed or is no CREATE VIRTUAL TABLE.
C12_BestEffort ==
    /\ gencol_called =>
        /\ gencol_res.ok
        /\ gencol_res.value =
            IF ~IsCreateTable(ps_stmt) THEN CouldNotGet
            ELSE IF DefsOf(ps_stmt, ps_col) = <<>> THEN CouldNotGet
            ELSE IF ExprsOf(DefsOf(ps_stmt, ps_col)[1]) = <<>> THEN CouldNotGet
            ELSE ExprsOf(DefsOf(ps_stmt, ps_col)[1])[1].generation_expr[1]
    /\ virtual_called =>
        /\ virtual_res.ok
        /\ starts_with(ps_table, SqlitePrefix) => virtual_res.value = <<>>
        /\ ~ps_stmt.ok => virtual_res.value = <<>>
        /\ virtual_res.value # <<>> =>
            /\ ps_stmt.ok
            /\ ps_stmt.ast # <<>>
            /\ ps_stmt.ast[1].kind = "CreateVirtualTable"
            /\ virtual_res.value = <<ps_stmt.ast[1].module_name>>

\* the statement of the table could not be parsed: both calls returned, with
\* the placeholder and with None
C12_Witness ==
    /\ gencol_called
    /\ virtual_called
    /\ ~ps_stmt.ok
    /\ gencol_res = [ok |-> TRUE, value |-> CouldNotGet]
    /\ virtual_res = [ok |-> TRUE, value |-> <<>>]

(***************************************************************************)
(* inspect_schema, one table's turn of the loop  (main.rs 194-324)         *)
(***************************************************************************)
\* the columns of the table, in the order of pragma_table_xinfo
TableCols == <<"a", "b">>

\* ColumnInfo (table.rs 11-18); hidden: 0 visible, 1 hidden column of a
\* virtual table, 2 generated virtual, 3 generated stored
ColumnInfos(k) ==
    {[name |-> TableCols[k], dtype |-> d.dtype, notnull |-> d.notnull,
      pk |-> p, hidden |-> h] :
        d \in {[dtype |-> "", notnull |-> FALSE],
               [dtype |-> "INT", notnull |-> TRUE]},
        p \in 0..2, h \in 0..3}

\* the rows of pragma_index_info, in seqno order, of the indexes of the table:
\* on column a, and on columns (b, a)
IndexInfoRows ==
    {<<[cid |-> 0, name |-> "a"]>>,
     <<[cid |-> 1, name |-> "b"], [cid |-> 0, name |-> "a"]>>}

\* IndexInfo (table.rs 32-38): the index of a PRIMARY KEY or UNIQUE
\* constraint is unique and not partial
IndexKinds ==
    {[origin |-> "pk", unique |-> TRUE, partial |-> FALSE],
     [origin |-> "u", unique |-> TRUE, partial |-> FALSE],
     [origin |-> "c", unique |-> FALSE, partial |-> FALSE],
     [origin |-> "c", unique |-> FALSE, partial |-> TRUE],
     [origin |-> "c", unique |-> TRUE, partial |-> TRUE]}

\* the k-th index of the table, with its pragma_index_info rows
IndexInfos(k) ==
    {[name |-> k, unique |-> x.unique, origin |-> x.origin,
      partial |-> x.partial, info |-> r] :
        x \in IndexKinds, r \in IndexInfoRows}

\* IndexInfo::column_names (table.rs 50-63)
column_names(ix) ==
    [i \in 1..Len(ix.info) |->
        CASE ix.info[i].cid = -1 -> "<rowid>"
          [] ix.info[i].cid = -2 -> "<expression>"
          [] OTHER -> ix.info[i].name]

\* mutant: the number of columns is tested before the origin, so the index
\* of a one-column primary key is taken for a unique index
classify_index_colsfirst(st, ix) ==
    LET cols == column_names(ix)
    IN  IF Len(cols) = 1
        THEN IF ix.unique
             THEN [st EXCEPT !.cols_unique = @ \cup {cols[1]}]
             ELSE [st EXCEPT !.cols_w_index = @ \cup {cols[1]}]
        ELSE IF ix.origin = "pk"
             THEN [st EXCEPT !.pk_cols = cols]
             ELSE [st EXCEPT !.other_indexes = Append(@, <<ix, cols>>)]

\* one turn of the index loop (main.rs 201-214) on locals st
classify_index(st, ix) ==
    LET cols == column_names(ix)
    IN  IF ix.origin = "pk"
        THEN [st EXCEPT !.pk_cols = cols]
        ELSE IF Len(cols) = 1
             THEN IF ix.unique
                  THEN [st EXCEPT !.cols_unique = @ \cup {cols[1]}]
                  ELSE [st EXCEPT !.cols_w_index = @ \cup {cols[1]}]
             ELSE [st EXCEPT !.other_indexes = Append(@, <<ix, cols>>)]

\* ForeignKeys::from_rows on a whole row sequence
RECURSIVE from_rows_loop(_, _)
from_rows_loop(st, rs) ==
    IF rs = <<>> THEN st
    ELSE from_rows_loop(from_rows_row(st, Head(rs)), Tail(rs))

from_rows(rs) ==
    from_rows_end(from_rows_loop([l |-> <<>>, current_id |-> 0,
                                  current |-> ForeignKeyInfo_new], rs))

\* the rows Table::foreign_key_info reads for the table: a REFERENCES t1
\* (column b then has no foreign key), or
\* FOREIGN KEY (a, b) REFERENCES multi_pk (a, b)
FkRowSamples ==
    {<<[id |-> 0, table |-> "t1", from |-> "a", to |-> Null,
        on_update |-> "NO ACTION", on_delete |-> "NO ACTION"]>>,
     <<[id |-> 0, table |-> "multi_pk", from |-> "a", to |-> "a",
        on_update |-> "NO ACTION", on_delete |-> "NO ACTION"],
       [id |-> 0, table |-> "multi_pk", from |-> "b", to |-> "b",
        on_update |-> "NO ACTION", on_delete |-> "NO ACTION"]>>}

\* main.rs 251: the column is left out of the report
\* mutant: every column that is not visible is left out
column_skipped_nonvisible(col, hidden_opt) == col.hidden # 0 /\ ~hidden_opt

column_skipped(col, hidden_opt) == col.hidden = 1 /\ ~hidden_opt

\* mutant: PRIMARY KEY is written on every primary-key column, whatever the
\* size of the primary key
column_annotation_anypk(col, pk, uniq, w_index) ==
    IF col.pk > 0 THEN <<"PRIMARY KEY">>
    ELSE IF col.name \in uniq THEN <<"UNIQUE">>
    ELSE IF col.name \in w_index THEN <<"indexed">>
    ELSE <<>>

\* mutant: PRIMARY KEY is written only when the primary-key index has one column
column_annotation_needindex(col, pk, uniq, w_index) ==
    IF col.pk > 0 /\ Len(pk) = 1 THEN <<"PRIMARY KEY">>
    ELSE IF col.name \in uniq THEN <<"UNIQUE">>
    ELSE IF col.name \in w_index THEN <<"indexed">>
    ELSE <<>>

\* mutant: the three annotations are written independently of each other
column_annotation_independent(col, pk, uniq, w_index) ==
    (IF col.pk > 0 /\ Len(pk) <= 1 THEN <<"PRIMARY KEY">> ELSE <<>>)
    \o (IF col.name \in uniq THEN <<"UNIQUE">> ELSE <<>>)
    \o (IF col.name \in w_index THEN <<"indexed">> ELSE <<>>)

\* main.rs 261-269: the PRIMARY KEY / UNIQUE / indexed fragment of a column
column_annotation(col, pk, uniq, w_index) ==
    IF col.pk > 0 /\ Len(pk) <= 1 THEN <<"PRIMARY KEY">>
    ELSE IF col.name \in uniq THEN <<"UNIQUE">>
    ELSE IF col.name \in w_index THEN <<"indexed">>
    ELSE <<>>

\* main.rs 270-276: the REFERENCES fragment of a column
column_references(col, fks) ==
    LET fk == for_name(fks, col.name)
    IN  IF fk = <<>> THEN <<>>
        ELSE <<"REFERENCES", fk[1].to_table>>
             \o (IF fk[1].to # <<"">> THEN fk[1].to ELSE <<>>)

\* the statement of the table of the report, as parsed: column a without
\* options, column b with AS (a * a)
TableStmt ==
    [ok |-> TRUE,
     ast |-> <<[kind |-> "CreateTable",
                columns |-> <<[name |-> "a", options |-> <<>>],
                              [name |-> "b",
                               options |-> <<[option |-> "Generated",
                                              generation_expr |-> <<"a * a">>]>>]>>]>>]

\* main.rs 277-286: the generated / hidden fragment of a column
column_generated(col) ==
    IF col.hidden = 2 \/ col.hidden = 3
    THEN <<"AS", get_gencol_expr(N_T1, TableStmt, col.name).value>>
         \o (IF col.hidden = 3 THEN <<"STORED">> ELSE <<>>)
    ELSE IF col.hidden = 1 THEN <<"hidden">> ELSE <<>>

\* main.rs 254-287: the line of a column, as the fragments written
column_line(col, pk, uniq, w_index, fks) ==
    [kind |-> "column",
     text |-> <<col.name>>
              \o (IF col.dtype # "" THEN <<col.dtype>> ELSE <<>>)
              \o (IF col.notnull THEN <<"NOT NULL">> ELSE <<>>)
              \o column_annotation(col, pk, uniq, w_index)
              \o column_references(col, fks)
              \o column_generated(col)]

\* main.rs 289-291: the composite PRIMARY KEY line
pk_lines(pk) ==
    IF Len(pk) > 1 THEN <<[kind |-> "PRIMARY KEY", text |-> pk]>> ELSE <<>>

\* main.rs 293-301: the FOREIGN KEY lines
fk_lines(fks) ==
    LET m == multicolumn(fks)
    IN  [i \in 1..Len(m) |->
            [kind |-> "FOREIGN KEY",
             text |-> m[i].from \o <<"REFERENCES", m[i].to_table>> \o m[i].to]]

\* main.rs 303-312: the Indexes section
index_lines(others) ==
    IF others = <<>> THEN <<>>
    ELSE <<[kind |-> "Indexes:", text |-> <<>>]>>
         \o [i \in 1..Len(others) |->
                [kind |-> "index",
                 text |-> <<others[i][1].name>> \o others[i][2]
                          \o (IF others[i][1].unique THEN <<"UNIQUE">>
                              ELSE <<>>)]]

InitSchema ==
    /\ inc_hidden \in BOOLEAN
    /\ indexes = <<>>
    /\ cols_unique = {}
    /\ cols_w_index = {}
    /\ pk_cols = <<>>
    /\ other_indexes = <<>>
    /\ foreign_keys \in {from_rows(rs) : rs \in FkRowSamples}
    /\ columns = <<>>
    /\ output = <<>>
    /\ sch_pc = "indexes"
    /\ IdleEscape
    /\ IdleFK
    /\ IdleNames
    /\ IdlePager
    /\ IdleRest

HasPkIndex(ixs) == \E i \in 1..Len(ixs) : ixs[i].origin = "pk"

\* the index loop reads the next index of the table; a table has at most one
\* index of origin pk
ClassifyIndex ==
    /\ sch_pc = "indexes"
    /\ Len(indexes) < MaxIndexes
    /\ \E ix \in IndexInfos(Len(indexes) + 1) :
        /\ ix.origin = "pk" => ~HasPkIndex(indexes)
        /\ indexes' = Append(indexes, ix)
        /\ LET st == classify_index([cols_unique |-> cols_unique,
                                     cols_w_index |-> cols_w_index,
                                     pk_cols |-> pk_cols,
                                     other_indexes |-> other_indexes], ix)
           IN  /\ cols_unique' = st.cols_unique
               /\ cols_w_index' = st.cols_w_index
               /\ pk_cols' = st.pk_cols
               /\ other_indexes' = st.other_indexes
    /\ UNCHANGED <<inc_hidden, foreign_keys, columns, output, sch_pc,
                   notSchema>>

\* the index loop ends; the heading of the table is written (main.rs 215-247)
IndexesEnd ==
    /\ sch_pc = "indexes"
    /\ output' = Append(output, [kind |-> "table", text |-> <<>>])
    /\ sch_pc' = "columns"
    /\ UNCHANGED <<inc_hidden, indexes, cols_unique, cols_w_index, pk_cols,
                   other_indexes, foreign_keys, columns, notSchema>>

\* one turn of the column loop (main.rs 250-288).  A column that is the
\* primary key without an index of origin pk is an INTEGER PRIMARY KEY, the
\* alias of the rowid, which is neither generated nor hidden.
RenderColumn ==
    /\ sch_pc = "columns"
    /\ Len(columns) < Len(TableCols)
    /\ \E col \in ColumnInfos(Len(columns) + 1) :
        /\ (col.pk > 0 /\ ~HasPkIndex(indexes)) => col.hidden = 0
        /\ columns' = Append(columns, col)
        /\ output' = IF column_skipped(col, inc_hidden)
                     THEN output
                     ELSE Append(output, column_line(col, pk_cols, cols_unique,
                                                     cols_w_index, foreign_keys))
    /\ UNCHANGED <<inc_hidden, indexes, cols_unique, cols_w_index, pk_cols,
                   other_indexes, foreign_keys, sch_pc, notSchema>>

\* the column loop ends; the rest of the table's part is written
\* (main.rs 289-323)
ColumnsEnd ==
    /\ sch_pc = "columns"
    /\ Len(columns) = Len(TableCols)
    /\ output' = output \o pk_lines(pk_cols) \o fk_lines(foreign_keys)
                        \o index_lines(other_indexes)
                        \o <<[kind |-> "", text |-> <<>>]>>
    /\ sch_pc' = "done"
    /\ UNCHANGED <<inc_hidden, indexes, cols_unique, cols_w_index, pk_cols,
                   other_indexes, foreign_keys, columns, notSchema>>

NextSchema == ClassifyIndex \/ IndexesEnd \/ RenderColumn \/ ColumnsEnd

SpecSchema == InitSchema /\ [][NextSchema]_vars
(***************************************************************************)
(* C4 - C7                                                                 *)
(***************************************************************************)
LinesOfKind(out, k) == SelectSeq(out, LAMBDA ln : ln.kind = k)

ColumnLines == LinesOfKind(output, "column")

Has(text, frag) == \E i \in 1..Len(text) : text[i] = frag

Count(text, frags) == Cardinality({i \in 1..Len(text) : text[i] \in frags})

\* the names of the columns rendered, in the order of their lines
RenderedNames == [i \in 1..Len(ColumnLines) |-> ColumnLines[i].text[1]]

\* C4: when the primary-key index of the table covers more than one column, no
\* column line carries PRIMARY KEY, and the finished report of the table has
\* exactly one composite PRIMARY KEY line, which lists the columns of that
\* index in index sequence order.
C4_CompositePrimaryKey ==
    \A i \in 1..Len(indexes) :
        (indexes[i].origin = "pk" /\ Len(indexes[i].info) > 1) =>
            /\ \A j \in 1..Len(ColumnLines) :
                ~Has(ColumnLines[j].text, "PRIMARY KEY")
            /\ sch_pc = "done" =>
                LinesOfKind(output, "PRIMARY KEY") =
                    <<[kind |-> "PRIMARY KEY",
                       text |-> [n \in 1..Len(indexes[i].info) |->
                                    indexes[i].info[n].name]]>>

\* PRIMARY KEY (b, a): both primary-key columns are rendered and the composite
\* line lists b, a
C4_Witness ==
    /\ sch_pc = "done"
    /\ \E i \in 1..Len(indexes) :
        indexes[i].origin = "pk" /\ Len(indexes[i].info) = 2
    /\ columns[1].pk = 2
    /\ columns[2].pk = 1
    /\ RenderedNames = <<"a", "b">>
    /\ LinesOfKind(output, "PRIMARY KEY")[1].text = <<"b", "a">>

PkOrdinalColumns == {k \in 1..Len(columns) : columns[k].pk > 0}

\* C5: in the finished report of a table with no index of origin pk and exactly
\* one column of primary-key ordinal > 0, the column lines that carry PRIMARY
\* KEY are the line of that column and no other, and there is no composite
\* PRIMARY KEY line.
C5_RowidPrimaryKey ==
    (sch_pc = "done" /\ ~HasPkIndex(indexes)
     /\ Cardinality(PkOrdinalColumns) = 1) =>
        /\ {j \in 1..Len(ColumnLines) : Has(ColumnLines[j].text, "PRIMARY KEY")}
            = {j \in 1..Len(ColumnLines) :
                \E k \in PkOrdinalColumns :
                    ColumnLines[j].text[1] = columns[k].name}
        /\ \E j \in 1..Len(ColumnLines) :
            Has(ColumnLines[j].text, "PRIMARY KEY")
        /\ LinesOfKind(output, "PRIMARY KEY") = <<>>

\* an INTEGER PRIMARY KEY column a next to a plain column b
C5_Witness ==
    /\ sch_pc = "done"
    /\ ~HasPkIndex(indexes)
    /\ columns[1].pk = 1
    /\ columns[2].pk = 0
    /\ Len(ColumnLines) = 2
    /\ Has(ColumnLines[1].text, "PRIMARY KEY")

Annotations == {"PRIMARY KEY", "UNIQUE", "indexed"}

\* C6: every column line carries at most one of PRIMARY KEY, UNIQUE, indexed;
\* the line of a column with a one-column unique index carries PRIMARY KEY or
\* UNIQUE and never indexed, and the line of a column with a one-column
\* non-unique index carries one of the three.
C6_OneAnnotation ==
    \A j \in 1..Len(ColumnLines) :
        LET text == ColumnLines[j].text
        IN  /\ Count(text, Annotations) <= 1
            /\ text[1] \in cols_unique =>
                Count(text, {"PRIMARY KEY", "UNIQUE"}) = 1
            /\ text[1] \in cols_w_index => Count(text, Annotations) = 1

\* a primary-key column that also has a unique and a non-unique one-column
\* index is rendered with PRIMARY KEY
C6_Witness ==
    /\ "a" \in cols_unique
    /\ "a" \in cols_w_index
    /\ Len(ColumnLines) >= 1
    /\ ColumnLines[1].text[1] = "a"
    /\ Has(ColumnLines[1].text, "PRIMARY KEY")

NamesWhere(cols, Keep(_)) ==
    LET kept == SelectSeq(cols, Keep)
    IN  [i \in 1..Len(kept) |-> kept[i].name]

\* C7 as stated: without --hidden only visible columns are rendered; with it
\* every column is.
C7_Original ==
    sch_pc \in {"columns", "done"} =>
        RenderedNames =
            IF inc_hidden THEN NamesWhere(columns, LAMBDA c : TRUE)
            ELSE NamesWhere(columns, LAMBDA c : c.hidden = 0)

\* C7, amended: without --hidden the columns rendered are those that are not
\* hidden columns of a virtual table (hidden = 1), so generated columns are
\* rendered; with --hidden every column is rendered.
C7_HiddenColumns ==
    sch_pc \in {"columns", "done"} =>
        RenderedNames =
            IF inc_hidden THEN NamesWhere(columns, LAMBDA c : TRUE)
            ELSE NamesWhere(columns, LAMBDA c : c.hidden # 1)

\* without --hidden, a hidden column was left out and a generated column was
\* rendered with its AS expression
C7_Witness ==
    /\ sch_pc = "done"
    /\ ~inc_hidden
    /\ columns[1].hidden = 1
    /\ columns[2].hidden = 3
    /\ Len(ColumnLines) = 1
    /\ Has(ColumnLines[1].text, "AS")
    /\ Has(ColumnLines[1].text, "STORED")
(***************************************************************************)
(* C13, C14                                                                *)
(***************************************************************************)
\* the column names of an index of the table, read off its rows
ColsOf(ix) == [n \in 1..Len(ix.info) |-> ix.info[n].name]

PkOrigin(ix) == ix.origin = "pk"

PkOriginIndexes == {i \in 1..Len(indexes) : PkOrigin(indexes[i])}

C14_PartialIndexes ==
    /\ \A i \in 1..Len(indexes) :
        (~PkOrigin(indexes[i]) /\ indexes[i].partial) =>
            /\ \E k \in 1..Len(other_indexes) : other_indexes[k][1] = indexes[i]
            /\ sch_pc = "done" =>
                \E n \in 1..Len(output) :
                    /\ output[n].kind = "index"
                    /\ output[n].text[1] = indexes[i].name
    /\ \A j \in 1..Len(ColumnLines) :
        Count(ColumnLines[j].text, {"UNIQUE", "indexed"}) > 0 =>
            \E i \in 1..Len(indexes) :
                /\ ~PkOrigin(indexes[i])
                /\ ~indexes[i].partial
                /\ ColsOf(indexes[i]) = <<ColumnLines[j].text[1]>>

(***************************************************************************)
(* get_table_names  (table.rs 287-310)                                     *)
(***************************************************************************)
UpperLetters == <<"A", "B", "C", "D", "E", "F", "G", "H", "I", "J", "K", "L", "M",
                  "N", "O", "P", "Q", "R", "S", "T", "U", "V", "W", "X", "Y", "Z">>

LowerLetters == <<"a", "b", "c", "d", "e", "f", "g", "h", "i", "j", "k", "l", "m",
                  "n", "o", "p", "q", "r", "s", "t", "u", "v", "w", "x", "y", "z">>

\* SQLite's LIKE takes no account of the case of ASCII letters
like_fold(c) ==
    IF \E i \in 1..Len(UpperLetters) : UpperLetters[i] = c
    THEN LowerLetters[CHOOSE i \in 1..Len(UpperLetters) : UpperLetters[i] = c]
    ELSE c

\* SQLite's  str LIKE pat : % matches any run of characters, _ any one character
RECURSIVE like(_, _)
like(str, pat) ==
    IF pat = <<>> THEN str = <<>>
    ELSE IF Head(pat) = "%"
         THEN \E k \in 0..Len(str) : like(SubSeq(str, k + 1, Len(str)), Tail(pat))
         ELSE /\ str # <<>>
              /\ Head(pat) = "_" \/ like_fold(Head(pat)) = like_fold(Head(str))
              /\ like(Tail(str), Tail(pat))

\* the pattern 'sqlite_%' of the WHERE clauses
SqlitePattern == <<"s", "q", "l", "i", "t", "e", "_", "%">>

\* the WHERE clauses of lines 292 and 296-297, by position in where_clauses
where_matches(clause, row) ==
    CASE clause = 1 -> row.type \in {"table", "virtual"}
                       /\ ~like(row.name, SqlitePattern)
      [] clause = 2 -> row.type = "shadow"
      [] clause = 3 -> like(row.name, SqlitePattern) /\ row.schema # "temp"

\* mutant: the query for the sqlite_ tables is not added
where_clauses_nosystem(hidden_opt) == IF hidden_opt THEN <<1, 2>> ELSE <<1>>

\* lines 292-299: the queries get_table_names runs
where_clauses(hidden_opt) == IF hidden_opt THEN <<1, 2, 3>> ELSE <<1>>

\* lines 301-307: SELECT name FROM pragma_table_list WHERE clause
select_names(tl, clause) ==
    LET hits == SelectSeq(tl, LAMBDA row : where_matches(clause, row))
    IN  [i \in 1..Len(hits) |-> hits[i].name]

RECURSIVE run_queries(_, _)
run_queries(tl, clauses) ==
    IF clauses = <<>> THEN <<>>
    ELSE select_names(tl, Head(clauses)) \o run_queries(tl, Tail(clauses))

get_table_names(tl, hidden_opt) == run_queries(tl, where_clauses(hidden_opt))

\* the schema tables, which pragma_table_list lists in every database
SchemaTables ==
    {[schema |-> "main", type |-> "table", name |-> N_SQLITE_SCHEMA],
     [schema |-> "temp", type |-> "table", name |-> N_SQLITE_TEMP_SCHEMA]}

\* the other rows of pragma_table_list: the tables t1 and sqlitex, the fts5
\* table email with one of its shadow tables, and the view v1
UserTables ==
    {[schema |-> "main", type |-> "table", name |-> N_T1],
     [schema |-> "main", type |-> "table", name |-> N_SQLITEX],
     [schema |-> "main", type |-> "virtual", name |-> N_EMAIL],
     [schema |-> "main", type |-> "shadow", name |-> N_EMAIL_DATA],
     [schema |-> "main", type |-> "view", name |-> N_V1]}

\* the listings of pragma_table_list: the schema tables and up to MaxTables
\* others, each once, in any order
TableLists ==
    {tl \in UNION {[1..n -> SchemaTables \cup UserTables] :
                        n \in 2..(MaxTables + 2)} :
        /\ \A i, j \in 1..Len(tl) : tl[i] = tl[j] => i = j
        /\ \A st \in SchemaTables : \E i \in 1..Len(tl) : tl[i] = st}

InitNames ==
    /\ table_list \in TableLists
    /\ names_off = <<>>
    /\ off_called = FALSE
    /\ names_on = <<>>
    /\ on_called = FALSE
    /\ IdleEscape
    /\ IdleFK
    /\ IdleSchema
    /\ IdlePager
    /\ IdleRest

\* get_table_names(conn, &false)
GetTableNamesOff ==
    /\ ~off_called
    /\ names_off' = get_table_names(table_list, FALSE)
    /\ off_called' = TRUE
    /\ UNCHANGED <<table_list, names_on, on_called, notNames>>

\* get_table_names(conn, &true)
GetTableNamesOn ==
    /\ ~on_called
    /\ names_on' = get_table_names(table_list, TRUE)
    /\ on_called' = TRUE
    /\ UNCHANGED <<table_list, names_off, off_called, notNames>>

NextNames == GetTableNamesOff \/ GetTableNamesOn

SpecNames == InitNames /\ [][NextNames]_vars

(***************************************************************************)
(* C8, C9                                                                  *)
(***************************************************************************)
\* the row of pragma_table_list with the name n
RowOf(n) == CHOOSE r \in Elems(table_list) : r.name = n

\* the name carries the sqlite_ prefix
HasSqlitePrefix(n) == Len(n) >= 7 /\ SubSeq(n, 1, 7) = <<"s", "q", "l", "i", "t", "e", "_">>

IsShadow(n) == RowOf(n).type = "shadow"

IsSystem(n) == HasSqlitePrefix(n)

IsOrdinaryOrVirtual(n) ==
    RowOf(n).type \in {"table", "virtual"} /\ ~HasSqlitePrefix(n)

\* C8: with hidden-inclusion off the result has no shadow table; with it on the
\* result has every shadow table, it is the hidden-off result followed only by
\* shadow and system tables, and no shadow or system table precedes an
\* ordinary or virtual table.
C8_HiddenGroups ==
    /\ off_called => \A i \in 1..Len(names_off) : ~IsShadow(names_off[i])
    /\ on_called =>
        /\ \A r \in Elems(table_list) :
            r.type = "shadow" => r.name \in Elems(names_on)
        /\ \A i, j \in 1..Len(names_on) :
            (i < j /\ IsOrdinaryOrVirtual(names_on[j])) =>
                ~(IsShadow(names_on[i]) \/ IsSystem(names_on[i]))
    /\ (off_called /\ on_called) =>
        /\ Len(names_off) <= Len(names_on)
        /\ SubSeq(names_on, 1, Len(names_off)) = names_off
        /\ \A i \in (Len(names_off) + 1)..Len(names_on) :
            IsShadow(names_on[i]) \/ IsSystem(names_on[i])

\* C9 as stated: no table with the sqlite_ prefix is ever returned.
C9_Original ==
    /\ off_called => \A i \in 1..Len(names_off) : ~HasSqlitePrefix(names_off[i])
    /\ on_called => \A i \in 1..Len(names_on) : ~HasSqlitePrefix(names_on[i])

\* C9, amended: with hidden-inclusion off no table with the sqlite_ prefix is
\* returned; with it on, the tables with the sqlite_ prefix that are returned
\* are those of a schema other than temp.
C9_SystemTables ==
    /\ off_called => \A i \in 1..Len(names_off) : ~HasSqlitePrefix(names_off[i])
    /\ on_called =>
        \A r \in Elems(table_list) :
            HasSqlitePrefix(r.name) =>
                (r.name \in Elems(names_on) <=> r.schema # "temp")

\* both listings were made; the hidden-on one ends with sqlite_schema
C9_Witness ==
    /\ off_called
    /\ on_called
    /\ names_on # <<>>
    /\ names_on[Len(names_on)] = N_SQLITE_SCHEMA
    /\ N_SQLITE_SCHEMA \notin Elems(names_off)
    /\ N_SQLITE_TEMP_SCHEMA \notin Elems(names_on)

(***************************************************************************)
(* The output decision  (main.rs 164-178, 349-359)                         *)
(***************************************************************************)
\* mutant: the pager is chosen without asking whether stdout is a terminal
inspect_schema_dispatch_notty(tty, height, t_rows) ==
    IF height > t_rows THEN "Paged" ELSE "Direct"

\* main.rs 349-359: the height alone is compared; the columns of the
\* terminal are not read
inspect_schema_dispatch(tty, height, t_rows) ==
    IF tty
    THEN IF height > t_rows THEN "Paged" ELSE "Direct"
    ELSE "Direct"

\* main.rs 164-178
inspect_table_dispatch(tty, height, width, t_rows, t_cols) ==
    IF tty
    THEN IF width > t_cols \/ height > t_rows THEN "Paged" ELSE "Direct"
    ELSE "Direct"

InitPager ==
    /\ function \in {"inspect_table", "inspect_schema"}
    /\ is_tty \in BOOLEAN
    /\ out_height \in 1..MaxDim
    /\ out_width \in 1..MaxDim
    /\ term_cols \in 1..MaxDim
    /\ term_rows \in 1..MaxDim
    /\ dispatch = ""
    /\ IdleEscape
    /\ IdleFK
    /\ IdleSchema
    /\ IdleNames
    /\ IdleRest

\* the end of inspect_table
InspectTableOutput ==
    /\ function = "inspect_table"
    /\ dispatch = ""
    /\ dispatch' = inspect_table_dispatch(is_tty, out_height, out_width,
                                          term_rows, term_cols)
    /\ UNCHANGED <<function, is_tty, out_height, out_width, term_cols,
                   term_rows, notPager>>

\* the end of inspect_schema
InspectSchemaOutput ==
    /\ function = "inspect_schema"
    /\ dispatch = ""
    /\ dispatch' = inspect_schema_dispatch(is_tty, out_height, term_rows)
    /\ UNCHANGED <<function, is_tty, out_height, out_width, term_cols,
                   term_rows, notPager>>

NextPager == InspectTableOutput \/ InspectSchemaOutput

SpecPager == InitPager /\ [][NextPager]_vars

(***************************************************************************)
(* C10                                                                     *)
(***************************************************************************)
\* C10 as stated: in both functions the output goes to the pager exactly when
\* stdout is interactive and the output is taller or wider than the terminal.
C10_Original ==
    dispatch # "" =>
        dispatch = IF is_tty /\ (out_height > term_rows \/ out_width > term_cols)
                   THEN "Paged" ELSE "Direct"

\* C10, amended: the decision is Direct or Paged; in inspect_table it is Paged
\* exactly when stdout is interactive and the output is taller than the
\* terminal or its table wider; in inspect_schema it is Paged exactly when
\* stdout is interactive and the output is taller than the terminal, whatever
\* its width; to a non-interactive destination it is always Direct.
C10_OutputDecision ==
    dispatch # "" =>
        /\ dispatch \in {"Direct", "Paged"}
        /\ ~is_tty => dispatch = "Direct"
        /\ function = "inspect_table" =>
            (dispatch = "Paged" <=>
                (is_tty /\ (out_height > term_rows \/ out_width > term_cols)))
        /\ function = "inspect_schema" =>
            (dispatch = "Paged" <=> (is_tty /\ out_height > term_rows))

\* a schema report wider but not taller than the interactive terminal was
\* printed directly
C10_Witness ==
    /\ function = "inspect_schema"
    /\ is_tty
    /\ out_width > term_cols
    /\ out_height <= term_rows
    /\ dispatch = "Direct"
(***************************************************************************)
(* main with a table argument, inspect_table  (main.rs 86-181, 412-420)    *)
(***************************************************************************)
\* the rows of pragma_table_list of the database: name and type
DbObjects == {[name |-> "t1", type |-> "table"], [name |-> "v1", type |-> "view"]}

\* mutant: every name is taken to be in the database
in_db_always(table_name) == TRUE

\* Table::in_db (table.rs 150-157)
in_db(table_name) ==
    Cardinality({o \in DbObjects : o.name = table_name}) > 0

\* the rows of SELECT * FROM t [WHERE w] LIMIT n, for `selected` rows that
\* the table holds or the clause selects
sample_rows(selected, limit) == IF limit < selected THEN limit ELSE selected

InitMain ==
    /\ arg_table \in {"t1", "v1", "nonesuch"}
    /\ arg_where \in {"", "a != 0"}
    /\ arg_limit \in 0..MaxLimit
    /\ db_rows \in 0..MaxDbRows
    /\ db_selected \in 0..db_rows
    /\ queries = <<>>
    /\ nrows = 0
    /\ main_pc = "start"
    /\ exit_code = 0
    /\ error = ""
    /\ function = "inspect_table"
    /\ is_tty \in BOOLEAN
    /\ out_height \in 1..MaxDim
    /\ out_width \in 1..MaxDim
    /\ term_cols \in 1..MaxDim
    /\ term_rows \in 1..MaxDim
    /\ dispatch = ""
    /\ IdleEscape
    /\ IdleFK
    /\ IdleSchema
    /\ IdleNames
    /\ IdleParse

\* main.rs 412-417: the lookup of the table named
MainLookup ==
    /\ main_pc = "start"
    /\ queries' = Append(queries, "in_db")
    /\ IF in_db(arg_table)
       THEN /\ main_pc' = "inspect"
            /\ UNCHANGED <<exit_code, error>>
       ELSE /\ main_pc' = "exit"
            /\ exit_code' = 1
            /\ error' = "No such table"
    /\ UNCHANGED <<arg_table, arg_where, arg_limit, db_rows, db_selected,
                   nrows, pagVars, notMain>>

\* main.rs 92-142: the heading, the sampling query and the rows of the sample
InspectTableSample ==
    /\ main_pc = "inspect"
    /\ queries' = queries \o <<"obj_type", "sample">>
    /\ nrows' = sample_rows(IF arg_where = "" THEN db_rows ELSE db_selected,
                            arg_limit)
    /\ main_pc' = "count"
    /\ UNCHANGED <<arg_table, arg_where, arg_limit, db_rows, db_selected,
                   exit_code, error, pagVars, notMain>>

\* main.rs 143-162: the line "n of m rows"
InspectTableCount ==
    /\ main_pc = "count"
    /\ queries' = queries \o (IF arg_where = "" THEN <<"count_rows">>
                              ELSE <<"count_selected", "count_rows">>)
    /\ main_pc' = "output"
    /\ UNCHANGED <<arg_table, arg_where, arg_limit, db_rows, db_selected,
                   nrows, exit_code, error, pagVars, notMain>>

\* main.rs 164-180: the sample is printed or paged, and main returns Ok(())
InspectTableDone ==
    /\ main_pc = "output"
    /\ dispatch' = inspect_table_dispatch(is_tty, out_height, out_width,
                                          term_rows, term_cols)
    /\ main_pc' = "exit"
    /\ exit_code' = 0
    /\ UNCHANGED <<arg_table, arg_where, arg_limit, db_rows, db_selected,
                   queries, nrows, error, function, is_tty, out_height,
                   out_width, term_cols, term_rows, notMain>>

NextMain ==
    MainLookup \/ InspectTableSample \/ InspectTableCount \/ InspectTableDone

SpecMain == InitMain /\ [][NextMain]_vars

(***************************************************************************)
(* C11                                                                     *)
(***************************************************************************)
NameExists == \E o \in DbObjects : o.name = arg_table

====
